---- MODULE Spec2Model ----
(***************************************************************************)
(* A model of golf_flip_app: the polling worker (worker.py), the SQLite    *)
(* dedup store (seen_store.py), the valuation (valuation.py), the          *)
(* notifier (whatsapp.py), the fetchers' item handling (ebay_fetcher.py,   *)
(* vinted_fetcher.py) and the dry-run endpoint (app.py).                   *)
(*                                                                         *)
(* Money is kept in pence (two-decimal fixed point); margin_percent in     *)
(* hundredths of a percent.  A Python dict is a record whose optional      *)
(* fields carry "<missing>" (no such key) or "<None>" (key present, value  *)
(* None); an optional number is a record [tag, val].                       *)
(***************************************************************************)
EXTENDS Integers, Sequences, FiniteSets, TLC

\* ------------------------------------------------------------------ bounds
MaxCycles == 2      \* polling cycles one worker process starts
MaxFetch == 2       \* listings in one fetch result
MaxCyclesPair == 1  \* the same, for each of two concurrent worker processes
MaxFetchPair == 1
MaxPrice == 60      \* highest of the small prices (in pence) a direct call is given
MaxItems == 2       \* items in a marketplace's search response

\* ------------------------------------------------------- values of a dict
Missing == "<missing>"
None == "<None>"

Num(v) == [tag |-> "num", val |-> v]
NoneNum == [tag |-> "none", val |-> 0]
MissingNum == [tag |-> "missing", val |-> 0]

\* dict.get(key) of an optional number: a missing key reads as None
GetNum(x) == IF x.tag = "missing" THEN NoneNum ELSE x

\* Python truthiness of an optional string
Truthy(s) == s # None /\ s # Missing /\ s # ""

\* str.lower() / str.upper() on the strings the model uses
Lower(s) ==
  CASE s = "Good" -> "good"
    [] s = "Like New" -> "like new"
    [] s = "Cobra" -> "cobra"
    [] s = "King LTDx" -> "king ltdx"
    [] s = "Cobra Driver" -> "cobra driver"
    [] s = "Scotty Cameron" -> "scotty cameron"
    [] s = "Phantom X" -> "phantom x"
    [] OTHER -> s

Upper(s) ==
  CASE s = "a" -> "A"
    [] s = "b" -> "B"
    [] s = "c" -> "C"
    [] s = "z" -> "Z"
    [] OTHER -> s

\* round(n / d, 0) for d > 0: the nearest integer; when n / d lies exactly
\* halfway the binary double the code rounds lies just above or just below
\* the half, and up says which
RoundDiv(n, d, up) ==
  LET q == n \div d
      r == n % d
  IN  IF 2 * r < d THEN q
      ELSE IF 2 * r > d THEN q + 1
      ELSE IF up THEN q + 1 ELSE q

\* The halfway cases of the three round(..., 2) calls of valuation.py that
\* come out at the upper neighbour in IEEE-754 double arithmetic, for prices
\* up to 1.00 and the prices and shipping costs of the listings below (every
\* other halfway case among them comes out at the lower neighbour):
\* round(price * 0.05, 2), by price
FeeRoundsUp == {10, 50, 90}

\* round(price * 1.5, 2), by price
ResaleRoundsUp ==
  {5, 7, 9, 11, 13, 17, 19, 21, 23, 25, 27, 43, 45, 51, 53, 55, 59, 61, 63, 65,
   67, 77, 79, 81, 93, 97}

\* round((profit / total_cost) * 100, 2), by <<profit, total_cost>>
MarginRoundsUp == {<<-2983, 3040>>, <<7, 32>>}

\* ---------------------------------------------------------------- settings
\* Settings (settings.py): the fields the worker, valuation and notifier read.
\* REGEX_* are None or a word; SHIPPING_TABLE_JSON is [tag, val] with tag
\* "unset" (None or ""), "invalid" (json.loads or float() raises),
\* "nodefault" (an object without "default") or "default" (val, in pence);
\* WA / TWILIO say whether that transport's credentials are all set.
MkSettings(ebay, vinted, inc, exc, strat, ship, wa, twilio) ==
  [ENABLE_EBAY |-> ebay, ENABLE_VINTED |-> vinted,
   REGEX_INCLUDE |-> inc, REGEX_EXCLUDE |-> exc,
   PROFIT_MIN |-> 1000, MARGIN_MIN_PERCENT |-> 2000,
   VALUATION_STRATEGY |-> strat, SHIPPING_TABLE_JSON |-> ship,
   WA |-> wa, TWILIO |-> twilio]

ShipUnset == [tag |-> "unset", val |-> 0]
ShipDefault(v) == [tag |-> "default", val |-> v]

SettingsSet ==
  { MkSettings(TRUE, TRUE, None, None, "C", ShipUnset, TRUE, TRUE),
    MkSettings(TRUE, TRUE, "driver", "broken", "a", ShipUnset, FALSE, TRUE),
    MkSettings(TRUE, FALSE, None, None, "B", ShipDefault(300), TRUE, FALSE),
    MkSettings(TRUE, TRUE, None, None, "Z", ShipUnset, FALSE, FALSE) }

\* ---------------------------------------------------------------- listings
MkListing(mp, id, title, url, cond, price, ship, brand, model) ==
  [marketplace |-> mp, listing_id |-> id, title |-> title, url |-> url,
   condition |-> cond, price |-> price, shipping_cost |-> ship,
   brand |-> brand, model |-> model]

\* What the marketplaces can return (the listing dicts of _simplify_item,
\* and dicts with keys left out, as the tests build them).
EbayCatalogue ==
  { MkListing("ebay", "e1", "Cobra Driver", "u1", "Good", Num(10000), Num(500), "Cobra", "King LTDx"),
    MkListing("ebay", "e2", "Cobra Driver", "u2", "", Num(4000), Num(800), None, None),
    MkListing("ebay", "e2", "driver", "u2", None, Num(2000), Num(500), None, None),
    MkListing("ebay", "e1", "broken driver", "u1", "poor", Num(10000), NoneNum, "Cobra", None),
    MkListing("ebay", "e1", "driver", "u1", "Like New", MissingNum, MissingNum, Missing, Missing),
    MkListing("ebay", "e2", "driver", "u2", "good", NoneNum, NoneNum, None, None),
    MkListing("ebay", "e2", None, "u2", "good", Num(10000), Num(500), None, None),
    MkListing("ebay", "e1", "driver", Missing, "good", Num(10000), Num(500), Missing, Missing),
    MkListing("ebay", None, "driver", None, "good", Num(10000), Num(500), None, None),
    MkListing("ebay", Missing, "driver", "u1", "good", Num(10000), Num(500), None, None) }

VintedCatalogue ==
  { MkListing("vinted", "v1", "driver", "w1", "Good", Num(10000), NoneNum, None, None),
    MkListing("vinted", "v1", "shirt", "w1", Missing, Num(10000), Num(3000), None, None),
    MkListing("vinted", "None", "driver", "w0", None, Num(4000), Num(800), None, None) }

Catalogue == EbayCatalogue \cup VintedCatalogue

\* the listings and settings two concurrent workers are run on
PairCatalogue ==
  { MkListing("ebay", "e1", "Cobra Driver", "u1", "Good", Num(10000), Num(500), "Cobra", "King LTDx"),
    MkListing("ebay", "e2", "Cobra Driver", "u2", "", Num(4000), Num(800), None, None),
    MkListing("ebay", "e2", "driver", "u2", None, Num(2000), Num(500), None, None) }

PairSettings ==
  { MkSettings(TRUE, FALSE, None, None, "C", ShipUnset, TRUE, TRUE) }

KeyOf(l) == <<l.marketplace, l.listing_id>>
Keys == {KeyOf(l) : l \in Catalogue}

\* --------------------------------------------------------------- valuation
\* the 5% fee cut off after the second decimal instead of rounded
buyer_protection_truncated(price) == (price * 5) \div 100

\* compute_buyer_protection_cost: round(price * 0.05, 2)
compute_buyer_protection_cost(price) ==
  RoundDiv(price * 5, 100, price \in FeeRoundsUp)

\* lookup_shipping_cost asking the table before the listing
lookup_shipping_table_first(listing, settings) ==
  LET own == GetNum(listing.shipping_cost)
      tab == settings.SHIPPING_TABLE_JSON
  IN  IF tab.tag = "default" THEN Num(tab.val)
      ELSE IF tab.tag = "nodefault" THEN Num(0)
      ELSE IF own.tag = "num" THEN Num(own.val)
      ELSE NoneNum

\* lookup_shipping_cost: the listing's own cost, else the table's default
\* (0.0 when the table has none), else None
lookup_shipping_cost(listing, settings) ==
  LET own == GetNum(listing.shipping_cost)
      tab == settings.SHIPPING_TABLE_JSON
  IN  IF own.tag = "num" THEN Num(own.val)
      ELSE IF tab.tag = "default" THEN Num(tab.val)
      ELSE IF tab.tag = "nodefault" THEN Num(0)
      ELSE NoneNum

\* the static price table answering 0.0 for a key it does not hold
static_prices_default0(k) ==
  CASE k = <<"cobra", "king ltdx">> -> Num(13000)
    [] k = <<"scotty cameron", "phantom x">> -> Num(24000)
    [] OTHER -> Num(0)

\* the static price table of strategy B, keyed by brand|model
static_prices(k) ==
  CASE k = <<"cobra", "king ltdx">> -> Num(13000)
    [] k = <<"scotty cameron", "phantom x">> -> Num(24000)
    [] OTHER -> NoneNum

OrEmpty(s) == IF Truthy(s) THEN s ELSE ""

\* estimate_resale_value: [tag, val], tag "raise" for the ValueError
estimate_resale_value(listing, settings) ==
  LET price == GetNum(listing.price)
      strategy == Upper(settings.VALUATION_STRATEGY)
  IN  IF price.tag = "none" THEN NoneNum
      ELSE IF strategy = "A"
        THEN Num(RoundDiv(price.val * 3, 2, price.val \in ResaleRoundsUp))
      ELSE IF strategy = "B"
        THEN static_prices(<<Lower(OrEmpty(listing.brand)), Lower(OrEmpty(listing.model))>>)
      ELSE IF strategy = "C"
        THEN Num(RoundDiv(price.val * 3, 2, price.val \in ResaleRoundsUp))
      ELSE [tag |-> "raise", val |-> 0]

\* the margin with a total cost of 0 taken as one penny
margin_of_floor1(profit, total_cost) ==
  RoundDiv(profit * 10000, IF total_cost = 0 THEN 1 ELSE total_cost, FALSE)

\* compute_profit line 151: round((profit / total_cost) * 100, 2) if
\* total_cost else 0.0
margin_of(profit, total_cost) ==
  IF total_cost # 0
    THEN RoundDiv(profit * 10000, total_cost, <<profit, total_cost>> \in MarginRoundsUp)
    ELSE 0

Breakdown(err, pc_, bp, sh, tot, res, pr, mg) ==
  [error |-> err, product_cost |-> pc_, buyer_protection_cost |-> bp,
   shipping_cost |-> sh, total_cost |-> tot, potential_resale_value |-> res,
   profit |-> pr, margin_percent |-> mg]

Raised(err) == Breakdown(err, 0, 0, 0, 0, 0, 0, 0)

\* compute_profit: the 7-tuple, or the exception that leaves it
compute_profit(listing, settings) ==
  IF listing.price.tag = "none" THEN Raised("TypeError")   \* float(None)
  ELSE
    LET product_cost == IF listing.price.tag = "missing" THEN 0 ELSE listing.price.val
        buyer_protection_cost == compute_buyer_protection_cost(product_cost)
        shipping_cost == lookup_shipping_cost(listing, settings)
        total_cost == product_cost + buyer_protection_cost
                      + (IF shipping_cost.tag = "num" THEN shipping_cost.val ELSE 0)
        potential_resale_value == estimate_resale_value(listing, settings)
        profit == IF potential_resale_value.tag = "num"
                    THEN potential_resale_value.val - total_cost ELSE 0
        margin_percent == IF potential_resale_value.tag = "num"
                            THEN margin_of(profit, total_cost) ELSE 0
    IN  IF potential_resale_value.tag = "raise" THEN Raised("ValueError")
        ELSE Breakdown("none", product_cost, buyer_protection_cost,
                       IF shipping_cost.tag = "num" THEN shipping_cost.val ELSE 0,
                       total_cost,
                       IF potential_resale_value.tag = "num"
                         THEN potential_resale_value.val ELSE 0,
                       profit, margin_percent)

\* ---------------------------------------------------------------- notifier
\* format_message with the indicator chosen as the worker's threshold decision
format_message_both(listing, breakdown, settings) ==
  IF listing.title = Missing \/ listing.url = Missing
    THEN [error |-> "KeyError", indicator |-> ""]
    ELSE [error |-> "none",
          indicator |-> IF breakdown.profit >= settings.PROFIT_MIN
                           /\ breakdown.margin_percent >= settings.MARGIN_MIN_PERCENT
                          THEN "looks_good" ELSE "not_profitable"]

\* format_message: the KeyError of listing['title'] / listing['url'], or the
\* closing indicator, chosen by profit against PROFIT_MIN
format_message(listing, breakdown, settings) ==
  IF listing.title = Missing \/ listing.url = Missing
    THEN [error |-> "KeyError", indicator |-> ""]
    ELSE [error |-> "none",
          indicator |-> IF breakdown.profit >= settings.PROFIT_MIN
                          THEN "looks_good" ELSE "not_profitable"]

\* send with Twilio tried only when the Cloud API is not configured
send_nofallback(settings, cloudOk, twilioOk) ==
  IF settings.WA THEN [result |-> cloudOk, attempted |-> <<"cloud">>]
  ELSE IF settings.TWILIO THEN [result |-> twilioOk, attempted |-> <<"twilio">>]
  ELSE [result |-> FALSE, attempted |-> <<>>]

\* WhatsAppNotifier.send: Cloud API first, then Twilio; cloudOk / twilioOk are
\* what _send_cloud / _send_twilio would return.  [result, attempted]
send(settings, cloudOk, twilioOk) ==
  IF settings.WA /\ cloudOk THEN [result |-> TRUE, attempted |-> <<"cloud">>]
  ELSE LET tried == IF settings.WA THEN <<"cloud">> ELSE <<>>
       IN  IF settings.TWILIO
             THEN [result |-> twilioOk, attempted |-> Append(tried, "twilio")]
             ELSE [result |-> FALSE, attempted |-> tried]

\* -------------------------------------------------------------- seen store
\* The SQLite file: whether table "seen" exists, and its rows.
NoDatabase == [exists |-> FALSE, rows |-> {}]

\* _ensure_table as DROP TABLE + CREATE TABLE: every SeenStore starts empty
ensure_table_recreate(d) == [exists |-> TRUE, rows |-> {}]

\* SeenStore._ensure_table: CREATE TABLE IF NOT EXISTS
_ensure_table(d) == IF d.exists THEN d ELSE [exists |-> TRUE, rows |-> {}]

\* has_seen with the two bound parameters in the wrong order
has_seen_swapped(d, marketplace, listing_id) ==
  \E r \in d.rows : r.marketplace = listing_id /\ r.listing_id = marketplace

\* SeenStore.has_seen: SELECT 1 ... WHERE marketplace=? AND listing_id=?
has_seen(d, marketplace, listing_id) ==
  \E r \in d.rows : r.marketplace = marketplace /\ r.listing_id = listing_id

\* mark_seen as a plain INSERT into a table without the primary key
mark_seen_insert(d, marketplace, listing_id, t) ==
  [d EXCEPT !.rows =
     @ \cup {[marketplace |-> marketplace, listing_id |-> listing_id, seen_at |-> t]}]

\* SeenStore.mark_seen: INSERT OR REPLACE under PRIMARY KEY (marketplace, listing_id)
mark_seen(d, marketplace, listing_id, t) ==
  [d EXCEPT !.rows =
     {r \in d.rows : ~(r.marketplace = marketplace /\ r.listing_id = listing_id)}
     \cup {[marketplace |-> marketplace, listing_id |-> listing_id, seen_at |-> t]}]

\* ------------------------------------------------------------------ worker
\* the words a title holds, for re.search with re.IGNORECASE
TitleWords(title) ==
  CASE Lower(title) = "cobra driver" -> {"cobra", "driver"}
    [] Lower(title) = "driver" -> {"driver"}
    [] Lower(title) = "broken driver" -> {"broken", "driver"}
    [] Lower(title) = "shirt" -> {"shirt"}
    [] OTHER -> {}

regex_search(regex, title) == regex \in TitleWords(title)

\* condition_acceptable comparing without lower()
condition_acceptable_exact(condition) ==
  IF ~Truthy(condition) THEN FALSE
  ELSE condition \in {"new", "like new", "excellent", "very good", "good"}

\* condition_acceptable
condition_acceptable(condition) ==
  IF ~Truthy(condition) THEN FALSE
  ELSE Lower(condition) \in {"new", "like new", "excellent", "very good", "good"}

\* the enabled fetchers with Vinted appended first
fetchers_vinted_first(settings) ==
  (IF settings.ENABLE_VINTED THEN <<"vinted">> ELSE <<>>)
  \o (IF settings.ENABLE_EBAY THEN <<"ebay">> ELSE <<>>)

\* run_once, lines 51-55: the enabled fetchers, eBay first
fetchers(settings) ==
  (IF settings.ENABLE_EBAY THEN <<"ebay">> ELSE <<>>)
  \o (IF settings.ENABLE_VINTED THEN <<"vinted">> ELSE <<>>)

Out(o, e, p) == [outcome |-> o, error |-> e, ops |-> p]

\* the threshold decision with <= for <: a listing exactly at a threshold is suppressed
below_thresholds_strict(b, settings) ==
  b.profit <= settings.PROFIT_MIN \/ b.margin_percent <= settings.MARGIN_MIN_PERCENT

\* run_once line 91: the threshold decision; TRUE when the listing is suppressed
below_thresholds(b, settings) ==
  b.profit < settings.PROFIT_MIN \/ b.margin_percent < settings.MARGIN_MIN_PERCENT

\* run_once lines 70-108 for one unseen listing: the filters, the valuation,
\* the threshold decision and the message, up to the first call of mark_seen
\* or send.  [outcome, error, ops]
Evaluate(listing, settings) ==
  LET title == IF listing.title = Missing THEN "" ELSE listing.title
      cond == OrEmpty(listing.condition)
      b == compute_profit(listing, settings)
      m == format_message(listing, b, settings)
  IN  IF (settings.REGEX_INCLUDE # None \/ settings.REGEX_EXCLUDE # None) /\ title = None
        THEN Out("raise", "TypeError", <<"has_seen", "filter">>)
      ELSE IF settings.REGEX_INCLUDE # None /\ ~regex_search(settings.REGEX_INCLUDE, title)
        THEN Out("skip", "none", <<"has_seen", "filter">>)
      ELSE IF settings.REGEX_EXCLUDE # None /\ regex_search(settings.REGEX_EXCLUDE, title)
        THEN Out("skip", "none", <<"has_seen", "filter">>)
      ELSE IF Truthy(cond) /\ ~condition_acceptable(cond)
        THEN Out("skip", "none", <<"has_seen", "filter">>)
      ELSE IF b.error # "none"
        THEN Out("raise", b.error, <<"has_seen", "filter", "compute_profit">>)
      ELSE IF below_thresholds(b, settings)
        THEN Out("suppress", "none", <<"has_seen", "filter", "compute_profit">>)
      ELSE IF m.error # "none"
        THEN Out("raise", m.error, <<"has_seen", "filter", "compute_profit", "format_message">>)
      ELSE Out("notify", "none", <<"has_seen", "filter", "compute_profit", "format_message">>)

\* the loop body with the has_seen check left out
Decide_noDedup(listing, settings, seen) ==
  IF listing.marketplace = Missing \/ listing.listing_id = Missing
    THEN Out("raise", "KeyError", <<>>)
  ELSE IF ~Truthy(listing.listing_id) THEN Out("skip", "none", <<>>)
  ELSE Evaluate(listing, settings)

\* run_once lines 64-69, then the rest of the loop body: seen is has_seen's
\* answer, asked only when the listing has an id
Decide(listing, settings, seen) ==
  IF listing.marketplace = Missing \/ listing.listing_id = Missing
    THEN Out("raise", "KeyError", <<>>)
  ELSE IF ~Truthy(listing.listing_id) THEN Out("skip", "none", <<>>)
  ELSE IF seen THEN Out("skip", "none", <<"has_seen">>)
  ELSE Evaluate(listing, settings)

\* ------------------------------------------------------------------- state
Workers == {1, 2}

VARIABLES
  config,     \* the Settings every worker runs with
  db,         \* the SQLite file at SQLITE_DB
  now,        \* datetime.utcnow(), as a tick per store write
  pc,         \* per worker: idle, fetch, listing, body, suppress, send, mark,
              \*   continue, sleep, crashed
  cycle,      \* per worker: run_once calls started
  fi,         \* per worker: index of the current fetcher in fetchers(config)
  left,       \* per worker: listings of the current fetch result not yet taken
  cur,        \* per worker: the listing the loop body is at
  ops,        \* per worker: what the loop body did for cur
  lastError,  \* per worker: the exception that left run_once
  queried,    \* per worker: the fetchers queried this cycle, in order
  failed,     \* per worker: the fetchers whose fetch_listings failed this cycle
  sendLog,    \* per key: the results of the Notifier.send calls made for it
  markCount,  \* per key: the mark_seen calls made for it
  marked,     \* per worker: the keys it marked seen while processing the
              \*   current fetch result
  call,       \* the last call made from outside the worker: a test's or
              \*   the HTTP endpoint's; its name and arguments
  ret         \* what that call returned

vars == <<config, db, now, pc, cycle, fi, left, cur, ops, lastError, queried,
          failed, sendLog, markCount, marked, call, ret>>

\* no listing: between two loop bodies
NoListing ==
  MkListing(Missing, Missing, Missing, Missing, Missing, MissingNum, MissingNum,
            Missing, Missing)

\* no call from outside the worker was made
NoCall == [fn |-> "none"]

\* A deployment: the worker processes that run, and the bounds of their runs.
Single ==
  [workers |-> {1}, maxCycles |-> MaxCycles, maxFetch |-> MaxFetch,
   catalogue |-> Catalogue, settings |-> SettingsSet]

Pair ==
  [workers |-> Workers, maxCycles |-> MaxCyclesPair, maxFetch |-> MaxFetchPair,
   catalogue |-> PairCatalogue, settings |-> PairSettings]

InitOf(D) ==
  /\ config \in D.settings
  /\ db = NoDatabase
  /\ now = 1
  /\ pc = [w \in Workers |-> "idle"]
  /\ cycle = [w \in Workers |-> 0]
  /\ fi = [w \in Workers |-> 1]
  /\ left = [w \in Workers |-> 0]
  /\ cur = [w \in Workers |-> NoListing]
  /\ ops = [w \in Workers |-> <<>>]
  /\ lastError = [w \in Workers |-> "none"]
  /\ queried = [w \in Workers |-> <<>>]
  /\ failed = [w \in Workers |-> {}]
  /\ sendLog = [k \in Keys |-> <<>>]
  /\ markCount = [k \in Keys |-> 0]
  /\ marked = [w \in Workers |-> {}]
  /\ call = NoCall
  /\ ret = NoCall

\* the for loops of run_once: n listings of the result are left; on to the
\* next of them, or, none left, to the next fetcher
LoopNext(w, n) ==
  /\ left' = [left EXCEPT ![w] = n]
  /\ marked' = [marked EXCEPT ![w] = IF n = 0 THEN {} ELSE @]
  /\ IF n = 0
       THEN pc' = [pc EXCEPT ![w] = "fetch"] /\ fi' = [fi EXCEPT ![w] = @ + 1]
       ELSE pc' = [pc EXCEPT ![w] = "listing"] /\ fi' = fi

\* start_worker line 140 and run_once lines 44-55: a cycle starts; the
\* SeenStore is constructed on the same file
RunOnceBegin(w, D) ==
  /\ pc[w] = "idle"
  /\ cycle[w] < D.maxCycles
  /\ cycle' = [cycle EXCEPT ![w] = @ + 1]
  /\ db' = _ensure_table(db)
  /\ pc' = [pc EXCEPT ![w] = "fetch"]
  /\ fi' = [fi EXCEPT ![w] = 1]
  /\ queried' = [queried EXCEPT ![w] = <<>>]
  /\ failed' = [failed EXCEPT ![w] = {}]
  /\ UNCHANGED <<call, ret, marked, config, now, left, cur, ops, lastError, sendLog, markCount>>

\* run_once lines 57-59: fetch_listings returns a list of n listings.  The
\* list is fixed here and read by nobody but this loop, so the model draws
\* each of its listings when the loop takes it (TakeListing).
FetchListings(w, D) ==
  /\ pc[w] = "fetch"
  /\ fi[w] <= Len(fetchers(config))
  /\ \E n \in 0..D.maxFetch : LoopNext(w, n)
  /\ queried' = [queried EXCEPT ![w] = Append(@, fetchers(config)[fi[w]])]
  /\ UNCHANGED <<call, ret, config, db, now, cycle, cur, ops, lastError, failed, sendLog,
                 markCount>>

\* fetch_listings raises with no try around it: the exception leaves run_once
FetchFails_abort(w) ==
  /\ pc[w] = "fetch"
  /\ fi[w] <= Len(fetchers(config))
  /\ pc' = [pc EXCEPT ![w] = "crashed"]
  /\ lastError' = [lastError EXCEPT ![w] = "Exception"]
  /\ queried' = [queried EXCEPT ![w] = Append(@, fetchers(config)[fi[w]])]
  /\ failed' = [failed EXCEPT ![w] = @ \cup {fetchers(config)[fi[w]]}]
  /\ UNCHANGED <<call, ret, marked, config, db, now, cycle, fi, left, cur, ops, sendLog, markCount>>

\* run_once lines 60-62: fetch_listings raises; logged, next fetcher
FetchFails(w) ==
  /\ pc[w] = "fetch"
  /\ fi[w] <= Len(fetchers(config))
  /\ fi' = [fi EXCEPT ![w] = @ + 1]
  /\ queried' = [queried EXCEPT ![w] = Append(@, fetchers(config)[fi[w]])]
  /\ failed' = [failed EXCEPT ![w] = @ \cup {fetchers(config)[fi[w]]}]
  /\ UNCHANGED <<call, ret, marked, config, db, now, pc, cycle, left, cur, ops, lastError, sendLog, markCount>>

\* run_once returns: every fetcher was taken
RunOnceEnd(w) ==
  /\ pc[w] = "fetch"
  /\ fi[w] > Len(fetchers(config))
  /\ pc' = [pc EXCEPT ![w] = "sleep"]
  /\ UNCHANGED <<call, ret, marked, config, db, now, cycle, fi, left, cur, ops, lastError, queried,
                 failed, sendLog, markCount>>

\* start_worker line 141: asyncio.sleep returns
Sleep(w) ==
  /\ pc[w] = "sleep"
  /\ pc' = [pc EXCEPT ![w] = "idle"]
  /\ UNCHANGED <<call, ret, marked, config, db, now, cycle, fi, left, cur, ops, lastError, queried,
                 failed, sendLog, markCount>>

\* run_once line 63: the loop takes the next listing of the fetch result
TakeListing(w, D) ==
  /\ pc[w] = "listing"
  /\ \E l \in {x \in D.catalogue : x.marketplace = fetchers(config)[fi[w]]} :
       cur' = [cur EXCEPT ![w] = l]
  /\ pc' = [pc EXCEPT ![w] = "body"]
  /\ UNCHANGED <<call, ret, marked, config, db, now, cycle, fi, left, ops, lastError, queried, failed,
                 sendLog, markCount>>

\* run_once lines 64-108 for the current listing: the dedup lookup, the
\* filters, the valuation and the threshold decision
ProcessListing(w) ==
  /\ pc[w] = "body"
  /\ LET d == Decide(cur[w], config, has_seen(db, cur[w].marketplace, cur[w].listing_id))
     IN  /\ ops' = [ops EXCEPT ![w] = d.ops]
         /\ lastError' = [lastError EXCEPT ![w] = d.error]
         /\ pc' = [pc EXCEPT ![w] =
                     CASE d.outcome = "skip" -> "continue"
                       [] d.outcome = "suppress" -> "suppress"
                       [] d.outcome = "notify" -> "send"
                       [] d.outcome = "raise" -> "crashed"]
  /\ UNCHANGED <<call, ret, marked, config, db, now, cycle, fi, left, cur, queried, failed, sendLog, markCount>>

\* one call of seen_store.mark_seen for the current listing
MarkCurrent(w) ==
  /\ db' = mark_seen(db, cur[w].marketplace, cur[w].listing_id, now)
  /\ now' = now + 1
  /\ markCount' = [markCount EXCEPT ![KeyOf(cur[w])] = @ + 1]
  /\ marked' = [marked EXCEPT ![w] = @ \cup {KeyOf(cur[w])}]
  /\ ops' = [ops EXCEPT ![w] = Append(@, "mark_seen")]
  /\ pc' = [pc EXCEPT ![w] = "continue"]

\* the suppress branch with its mark_seen call left out
MarkSuppressed_skip(w) ==
  /\ pc[w] = "suppress"
  /\ pc' = [pc EXCEPT ![w] = "continue"]
  /\ UNCHANGED <<call, ret, marked, config, db, now, cycle, fi, left, cur, ops, lastError, queried,
                 failed, sendLog, markCount>>

\* run_once lines 92-94: below a threshold; marked seen, not notified
MarkSuppressed(w) ==
  /\ pc[w] = "suppress"
  /\ MarkCurrent(w)
  /\ UNCHANGED <<call, ret, config, cycle, fi, left, cur, lastError, queried, failed, sendLog>>

\* run_once line 109: notifier.send(message)
Send(w) ==
  /\ pc[w] = "send"
  /\ \E cloudOk, twilioOk \in BOOLEAN :
       sendLog' = [sendLog EXCEPT ![KeyOf(cur[w])] =
                     Append(@, send(config, cloudOk, twilioOk).result)]
  /\ ops' = [ops EXCEPT ![w] = Append(@, "send")]
  /\ pc' = [pc EXCEPT ![w] = "mark"]
  /\ UNCHANGED <<call, ret, marked, config, db, now, cycle, fi, left, cur, lastError, queried, failed,
                 markCount>>

\* run_once lines 111-112: marked seen after the attempt
MarkNotified(w) ==
  /\ pc[w] = "mark"
  /\ MarkCurrent(w)
  /\ UNCHANGED <<call, ret, config, cycle, fi, left, cur, lastError, queried, failed, sendLog>>

\* a continue statement, or the end of the loop body: the next iteration
Continue(w) ==
  /\ pc[w] = "continue"
  /\ LoopNext(w, left[w] - 1)
  /\ cur' = [cur EXCEPT ![w] = NoListing]
  /\ ops' = [ops EXCEPT ![w] = <<>>]
  /\ UNCHANGED <<call, ret, config, db, now, cycle, lastError, queried, failed, sendLog,
                 markCount>>

Step(w, D) ==
  \/ RunOnceBegin(w, D)
  \/ FetchListings(w, D)
  \/ FetchFails(w)
  \/ RunOnceEnd(w)
  \/ Sleep(w)
  \/ TakeListing(w, D)
  \/ ProcessListing(w)
  \/ MarkSuppressed(w)
  \/ Send(w)
  \/ MarkNotified(w)
  \/ Continue(w)

\* main, lines 144-147: the worker process, ended by an exception, is
\* started again on the same SQLITE_DB
Restart(w) ==
  /\ pc[w] = "crashed"
  /\ pc' = [pc EXCEPT ![w] = "idle"]
  /\ fi' = [fi EXCEPT ![w] = 1]
  /\ left' = [left EXCEPT ![w] = 0]
  /\ cur' = [cur EXCEPT ![w] = NoListing]
  /\ ops' = [ops EXCEPT ![w] = <<>>]
  /\ queried' = [queried EXCEPT ![w] = <<>>]
  /\ failed' = [failed EXCEPT ![w] = {}]
  /\ marked' = [marked EXCEPT ![w] = {}]
  /\ UNCHANGED <<call, ret, config, db, now, cycle, lastError, sendLog, markCount>>

\* one worker process, as deployed
Init == InitOf(Single)

Next == \E w \in Single.workers : Step(w, Single)

Spec == Init /\ [][Next]_vars

\* one worker process, started again whenever an exception ends it
NextRestart == \E w \in Single.workers : Step(w, Single) \/ Restart(w)

SpecRestart == Init /\ [][NextRestart]_vars

\* seen_store.mark_seen raises (sqlite3.OperationalError: the storage is
\* unavailable): nothing is written and the exception leaves run_once
MarkFails(w) ==
  /\ pc[w] \in {"suppress", "mark"}
  /\ pc' = [pc EXCEPT ![w] = "crashed"]
  /\ lastError' = [lastError EXCEPT ![w] = "OperationalError"]
  /\ UNCHANGED <<call, ret, marked, config, db, now, cycle, fi, left, cur, ops, queried, failed,
                 sendLog, markCount>>

\* the worker process is stopped (killed, host down) after notifier.send
\* returned and before seen_store.mark_seen is called
ProcessStops(w) ==
  /\ pc[w] = "mark"
  /\ pc' = [pc EXCEPT ![w] = "crashed"]
  /\ lastError' = [lastError EXCEPT ![w] = "stopped"]
  /\ UNCHANGED <<call, ret, marked, config, db, now, cycle, fi, left, cur, ops, queried, failed,
                 sendLog, markCount>>

\* one worker process with storage faults and stops, started again afterwards
NextFaults ==
  \E w \in Single.workers :
    \/ Step(w, Single)
    \/ MarkFails(w)
    \/ ProcessStops(w)
    \/ Restart(w)

SpecFaults == Init /\ [][NextFaults]_vars

\* two worker processes on the same SQLITE_DB
InitTwo == InitOf(Pair)

NextTwo == \E w \in Pair.workers : Step(w, Pair)

SpecTwo == InitTwo /\ [][NextTwo]_vars

\* ------------------------------------------------- fetchers (fetch_listings)
\* An item of a marketplace's search response: shape says whether it is a
\* JSON object at all; a field the object does not hold is Missing; price
\* and shipping are [tag, val], tag "text" for a value float() rejects.
MkItem(shape, id, title, condition, price, ship, brand, model) ==
  [shape |-> shape, id |-> id, title |-> title, condition |-> condition,
   price |-> price, shipping |-> ship, brand |-> brand, model |-> model]

NotNumber == [tag |-> "text", val |-> 0]

\* dict.get(key) of an optional string: a missing key reads as None
Get(x) == IF x = Missing THEN None ELSE x

\* the item page a marketplace serves for an id
UrlOf(id) ==
  CASE id = "e1" -> "u1"
    [] id = "e2" -> "u2"
    [] id = "v1" -> "w1"
    [] id = Missing -> "w0"
    [] id = None -> "w0"
    [] OTHER -> "u0"

\* the items the marketplaces answer with
EbayItems ==
  { MkItem("object", "e1", "Cobra Driver", "Good", Num(10000), Num(500), "Cobra", "King LTDx"),
    MkItem("object", "e2", "driver", "good", MissingNum, MissingNum, Missing, Missing),
    MkItem("object", Missing, "driver", "good", Num(10000), Num(500), Missing, Missing),
    MkItem("object", "e2", "driver", "good", NotNumber, MissingNum, Missing, Missing),
    MkItem("string", Missing, Missing, Missing, MissingNum, MissingNum, Missing, Missing) }

VintedItems ==
  { MkItem("object", "v1", "driver", "Good", Num(10000), MissingNum, Missing, Missing),
    MkItem("object", Missing, "driver", Missing, Num(4000), Num(800), Missing, Missing),
    MkItem("object", "v1", "driver", "Good", NotNumber, MissingNum, Missing, Missing),
    MkItem("string", Missing, Missing, Missing, MissingNum, MissingNum, Missing, Missing) }

\* what _simplify_item gives: the listing, or the exception that leaves it
Simplified(err, listing) == [error |-> err, listing |-> listing]

\* EbayFetcher._simplify_item: listing_id is item.get("itemId"), None when
\* the item has none; every field is read with get
EbayFetcher_simplify_item(item) ==
  IF item.shape # "object" THEN Simplified("AttributeError", <<>>)
  ELSE IF item.price.tag = "text" \/ item.shipping.tag = "text"
    THEN Simplified("ValueError", <<>>)
  ELSE Simplified("none",
         MkListing("ebay", Get(item.id), Get(item.title),
                   IF item.id = Missing THEN None ELSE UrlOf(item.id),
                   Get(item.condition), GetNum(item.price), GetNum(item.shipping),
                   Get(item.brand), Get(item.model)))

\* VintedFetcher._simplify_item: listing_id is str(item.get("id")), the
\* string "None" when the item has none, and the url is built from the id
VintedFetcher_simplify_item(item) ==
  IF item.shape # "object" THEN Simplified("AttributeError", <<>>)
  ELSE IF item.price.tag = "text" \/ item.shipping.tag = "text"
    THEN Simplified("ValueError", <<>>)
  ELSE Simplified("none",
         MkListing("vinted", IF Get(item.id) = None THEN "None" ELSE item.id,
                   Get(item.title), UrlOf(item.id),
                   Get(item.condition), GetNum(item.price), GetNum(item.shipping),
                   Get(item.brand), Get(item.model)))

simplify_item(marketplace, item) ==
  IF marketplace = "ebay" THEN EbayFetcher_simplify_item(item)
  ELSE VintedFetcher_simplify_item(item)

\* the item loop with no try around _simplify_item: the first item that
\* raises ends the loop with what was gathered
RECURSIVE simplify_until_error(_, _)
simplify_until_error(marketplace, items) ==
  IF items = <<>> THEN <<>>
  ELSE LET r == simplify_item(marketplace, Head(items))
       IN  IF r.error # "none" THEN <<>>
           ELSE <<r.listing>> \o simplify_until_error(marketplace, Tail(items))

\* fetch_listings, the item loop (ebay_fetcher.py 135-142, vinted_fetcher.py
\* 79-86): an item whose _simplify_item raises is logged and left out
RECURSIVE simplify_items(_, _)
simplify_items(marketplace, items) ==
  IF items = <<>> THEN <<>>
  ELSE LET r == simplify_item(marketplace, Head(items))
       IN  (IF r.error # "none" THEN <<>> ELSE <<r.listing>>)
           \o simplify_items(marketplace, Tail(items))

\* What the search request of a fetcher can come back with: a JSON object
\* with items, an error (caught, logged, empty list), or JSON that is no
\* object (the AttributeError of data.get leaves fetch_listings).
Responses == {"object", "error", "array"}

\* the requests of EbayFetcher.fetch_listings: the token request when client
\* id and secret are set, then the search
EbayRequests(settings) ==
  (IF Truthy(settings.EBAY_CLIENT_ID) /\ Truthy(settings.EBAY_CLIENT_SECRET)
     THEN <<"token">> ELSE <<>>) \o <<"search">>

\* what fetch_listings makes of the search response: [error, items, requests]
Fetched(marketplace, response, items, requests) ==
  [error |-> IF response = "array" THEN "AttributeError" ELSE "none",
   items |-> IF response = "object" THEN simplify_items(marketplace, items) ELSE <<>>,
   requests |-> requests]

\* EbayFetcher.fetch_listings without its credentials check
EbayFetcher_nocheck(settings, response, items) ==
  Fetched("ebay", response, items, EbayRequests(settings))

\* EbayFetcher.fetch_listings: nothing is requested without credentials
EbayFetcher_fetch_listings(settings, response, items) ==
  IF ~ ( Truthy(settings.EBAY_APP_ID)
         \/ (Truthy(settings.EBAY_CLIENT_ID) /\ Truthy(settings.EBAY_CLIENT_SECRET)) )
    THEN Fetched("ebay", "object", <<>>, <<>>)
    ELSE Fetched("ebay", response, items, EbayRequests(settings))

\* VintedFetcher.fetch_listings: nothing is requested when ENABLE_VINTED is off
VintedFetcher_fetch_listings(settings, response, items) ==
  IF ~settings.ENABLE_VINTED
    THEN Fetched("vinted", "object", <<>>, <<>>)
    ELSE Fetched("vinted", response, items, <<"search">>)

\* the sequences of at most n elements of S
SeqsUpTo(S, n) == UNION {[1..k -> S] : k \in 0..n}

\* ------------------------------------------------------- dry run (app.py)
\* the hard coded sample listings of dry_run
samples ==
  << MkListing("ebay", "dry1", "Cobra King LTDx driver 9 deg with HC", "item1",
               "excellent", Num(8000), Num(400), "Cobra", "King LTDx"),
     MkListing("ebay", "dry2", "Scotty Cameron Phantom X putter", "item2",
               "very good", Num(20000), Num(500), "Scotty Cameron", "Phantom X"),
     MkListing("vinted", "dry3", "Junior set 7 piece", "item3",
               "good", Num(3500), Num(400), None, None) >>

\* the for loop of dry_run from sample i on, results being what was appended
\* so far: [error, results]
RECURSIVE dry_run_loop(_, _, _)
dry_run_loop(settings, i, results) ==
  IF i > Len(samples) THEN [error |-> "none", results |-> results]
  ELSE
    LET listing == samples[i]
        b == compute_profit(listing, settings)
        m == format_message(listing, b, settings)
        r == Append(results, [listing_id |-> listing.listing_id,
                              message |-> m.indicator, payload |-> b])
    IN  IF b.error # "none" THEN [error |-> b.error, results |-> results]
        ELSE IF m.error # "none" THEN [error |-> m.error, results |-> results]
        ELSE IF b.profit >= settings.PROFIT_MIN
                /\ b.margin_percent >= settings.MARGIN_MIN_PERCENT
          THEN [error |-> "none", results |-> r]
          ELSE dry_run_loop(settings, i + 1, r)

\* dry_run: the response, results[0], or the exception that leaves it
dry_run(settings) ==
  LET o == dry_run_loop(settings, 1, <<>>)
  IN  IF o.error # "none" THEN [error |-> o.error, listing_id |-> ""]
      ELSE IF o.results # <<>>
        THEN [error |-> "none", listing_id |-> o.results[1].listing_id,
              message |-> o.results[1].message, payload |-> o.results[1].payload]
        ELSE [error |-> "none", listing_id |-> ""]

\* ------------------------------------------- calls from outside the worker
\* What the tests and the HTTP endpoint call directly, and with what.
CallPrices ==
  {Num(p) : p \in 0..MaxPrice} \cup {Num(2000), Num(10000), NoneNum, MissingNum}

CallShipping == {MissingNum, NoneNum, Num(0), Num(5), Num(500)}

CallListings ==
  { MkListing("ebay", "t1", "Cobra Driver", "u1", "Good", p, sh, bm[1], bm[2]) :
      p \in CallPrices, sh \in CallShipping,
      bm \in {<<"Cobra", "King LTDx">>, <<"Cobra", None>>, <<Missing, Missing>>} }

CallSettings ==
  { MkSettings(TRUE, TRUE, None, None, st, tab, TRUE, TRUE) :
      st \in {"A", "b", "C", "Z"},
      tab \in {ShipUnset, ShipDefault(300), [tag |-> "nodefault", val |-> 0],
               [tag |-> "invalid", val |-> 0]} }

\* settings with other thresholds
WithThresholds(settings, profit_min, margin_min) ==
  [settings EXCEPT !.PROFIT_MIN = profit_min, !.MARGIN_MIN_PERCENT = margin_min]

ThresholdSettings ==
  { WithThresholds(MkSettings(TRUE, TRUE, None, None, st, ShipUnset, TRUE, TRUE), pm, mm) :
      st \in {"A", "B", "C", "Z"}, pm \in {0, 1000, 3000, 5000, 9000},
      mm \in {0, 2000, 3800, 4500} }

\* breakdown tuples as test_format_message_structure passes them
CallBreakdowns ==
  { Breakdown("none", 10000, 500, 500, 11000, 11000 + pr, pr, mg) :
      pr \in {-500, 0, 999, 1000, 1001, 2999, 3000, 4000, 9000},
      mg \in {-455, 0, 1999, 2000, 3636} }

TransportSettings ==
  { MkSettings(TRUE, TRUE, None, None, "C", ShipUnset, wa, tw) : wa, tw \in BOOLEAN }

Credential == {None, "", "id"}

FetcherSettings ==
  [EBAY_APP_ID : Credential, EBAY_CLIENT_ID : Credential,
   EBAY_CLIENT_SECRET : Credential, ENABLE_VINTED : BOOLEAN]

workerVars == <<config, db, now, pc, cycle, fi, left, cur, ops, lastError, queried,
                failed, sendLog, markCount, marked>>

\* test_compute_profit_heuristic's call, on any listing and settings
CallComputeProfit ==
  /\ call = NoCall
  /\ \E l \in CallListings, s \in CallSettings :
       /\ call' = [fn |-> "compute_profit", listing |-> l, settings |-> s]
       /\ ret' = compute_profit(l, s)
  /\ UNCHANGED workerVars

\* test_format_message_structure's call
CallFormatMessage ==
  /\ call = NoCall
  /\ \E l \in {x \in Catalogue : x.listing_id = "e1"}, b \in CallBreakdowns,
        s \in ThresholdSettings :
       /\ call' = [fn |-> "format_message", listing |-> l, breakdown |-> b,
                   settings |-> s]
       /\ ret' = format_message(l, b, s)
  /\ UNCHANGED workerVars

\* WhatsAppNotifier(settings).send(message)
CallSend ==
  /\ call = NoCall
  /\ \E s \in TransportSettings, cloudOk, twilioOk \in BOOLEAN :
       /\ call' = [fn |-> "send", settings |-> s, cloudOk |-> cloudOk,
                   twilioOk |-> twilioOk]
       /\ ret' = send(s, cloudOk, twilioOk)
  /\ UNCHANGED workerVars

\* POST /dry-run
CallDryRun ==
  /\ call = NoCall
  /\ \E s \in ThresholdSettings :
       /\ call' = [fn |-> "dry_run", settings |-> s]
       /\ ret' = dry_run(s)
  /\ UNCHANGED workerVars

\* EbayFetcher(settings).fetch_listings(keywords, max_price)
CallEbayFetch ==
  /\ call = NoCall
  /\ \E s \in FetcherSettings, response \in Responses,
        items \in SeqsUpTo(EbayItems, MaxItems) :
       /\ call' = [fn |-> "EbayFetcher.fetch_listings", settings |-> s,
                   response |-> response, items |-> items]
       /\ ret' = EbayFetcher_fetch_listings(s, response, items)
  /\ UNCHANGED workerVars

\* VintedFetcher(settings).fetch_listings(keywords, max_price)
CallVintedFetch ==
  /\ call = NoCall
  /\ \E s \in FetcherSettings, response \in Responses,
        items \in SeqsUpTo(VintedItems, MaxItems) :
       /\ call' = [fn |-> "VintedFetcher.fetch_listings", settings |-> s,
                   response |-> response, items |-> items]
       /\ ret' = VintedFetcher_fetch_listings(s, response, items)
  /\ UNCHANGED workerVars

\* the call has returned to its caller; the next one can be made
Return ==
  /\ call # NoCall
  /\ call' = NoCall
  /\ ret' = NoCall
  /\ UNCHANGED workerVars

InitCalls == InitOf([Single EXCEPT !.settings = PairSettings])

NextCalls ==
  \/ CallComputeProfit
  \/ CallFormatMessage
  \/ CallSend
  \/ CallDryRun
  \/ CallEbayFetch
  \/ CallVintedFetch
  \/ Return

SpecCalls == InitCalls /\ [][NextCalls]_vars

\* one worker process under weak fairness: a step that can be taken is taken
SpecFair == Init /\ [][Next]_vars /\ WF_vars(Next)

\* ------------------------------------------------------------------ claims
Has(seq, x) == \E i \in 1..Len(seq) : seq[i] = x

Seen(k) == has_seen(db, k[1], k[2])

RowsOf(k) == {r \in db.rows : r.marketplace = k[1] /\ r.listing_id = k[2]}

\* worker w is in the loop body, at cur[w]
InBody(w) == pc[w] \in {"body", "suppress", "send", "mark", "continue", "crashed"}

\* the listing has the keys the loop body reads with [] (title, url)
WellFormed(l) == l.title # Missing /\ l.url # Missing

\* the listing passes the include, exclude and condition filters of settings s
PassesFilters(l, s) ==
  /\ Truthy(l.listing_id)
  /\ (s.REGEX_INCLUDE # None \/ s.REGEX_EXCLUDE # None) => l.title # None
  /\ s.REGEX_INCLUDE # None => regex_search(s.REGEX_INCLUDE, l.title)
  /\ s.REGEX_EXCLUDE # None => ~regex_search(s.REGEX_EXCLUDE, l.title)
  /\ Truthy(l.condition) => condition_acceptable(l.condition)

\* the listing's valuation returns, with both thresholds met
MeetsThresholds(l, s) ==
  LET b == compute_profit(l, s)
  IN  b.error = "none" /\ b.profit >= s.PROFIT_MIN
      /\ b.margin_percent >= s.MARGIN_MIN_PERCENT

\* the listing's valuation returns, with a threshold missed
MissesThreshold(l, s) ==
  LET b == compute_profit(l, s)
  IN  b.error = "none"
      /\ (b.profit < s.PROFIT_MIN \/ b.margin_percent < s.MARGIN_MIN_PERCENT)

\* C1: with one worker running cycle after cycle on the same store, whatever
\* the fetchers return and however often, Notifier.send is invoked at most
\* once per (marketplace, listing_id).
C1_AtMostOnce == \A k \in Keys : Len(sendLog[k]) <= 1

\* a listing that would be notified is fetched again in the second cycle,
\* after the one send made for its key
C1_Witness ==
  /\ pc[1] = "body" /\ cycle[1] = 2
  /\ Len(sendLog[KeyOf(cur[1])]) = 1
  /\ Evaluate(cur[1], config).outcome = "notify"

\* C2: a new, well-formed listing that passes the filters with profit >=
\* PROFIT_MIN and margin_percent >= MARGIN_MIN_PERCENT (equality included)
\* goes to exactly one Notifier.send and then exactly one mark_seen for its
\* key, whatever send returns; once a send was made for a key (failed or
\* not) and its mark_seen is done, the key stays in the store and no further
\* send is made for it.
C2_Step ==
  /\ \A w \in Workers :
       LET l == cur[w]
           k == KeyOf(cur[w])
       IN  /\ ( /\ pc[w] = "body" /\ pc'[w] # "body"
                /\ ~Seen(k) /\ WellFormed(l)
                /\ PassesFilters(l, config) /\ MeetsThresholds(l, config) )
              => ( pc'[w] = "send" /\ sendLog[k] = <<>> /\ markCount[k] = 0
                   /\ sendLog' = sendLog /\ db' = db )
           /\ (pc[w] = "send" /\ pc'[w] # "send")
              => ( pc'[w] = "mark" /\ Len(sendLog'[k]) = 1
                   /\ markCount'[k] = 0 /\ db' = db )
           /\ (pc[w] = "mark" /\ pc'[w] # "mark")
              => ( pc'[w] = "continue" /\ Len(sendLog'[k]) = 1
                   /\ markCount'[k] = 1 /\ has_seen(db', k[1], k[2]) )
  /\ \A k \in Keys :
       (Len(sendLog[k]) = 1 /\ ~(\E w \in Workers : pc[w] = "mark" /\ KeyOf(cur[w]) = k))
       => (Seen(k) /\ has_seen(db', k[1], k[2]) /\ sendLog'[k] = sendLog[k]
           /\ markCount'[k] = 1)

C2_NotifyOnceMarkOnce == [][C2_Step]_vars

\* a listing exactly at both thresholds, whose one send failed in the first
\* cycle, is fetched again in the second
C2_Witness ==
  /\ pc[1] = "body" /\ cycle[1] = 2
  /\ sendLog[KeyOf(cur[1])] = <<FALSE>> /\ markCount[KeyOf(cur[1])] = 1
  /\ LET b == compute_profit(cur[1], config)
     IN  b.error = "none" /\ b.profit = config.PROFIT_MIN
         /\ b.margin_percent = config.MARGIN_MIN_PERCENT

\* C3: a new listing that reaches the threshold decision with profit <
\* PROFIT_MIN or margin_percent < MARGIN_MIN_PERCENT is marked seen without
\* a send, and no send is made for its key in any later cycle.
C3_Step ==
  /\ \A w \in Workers :
       LET l == cur[w]
           k == KeyOf(cur[w])
       IN  /\ ( /\ pc[w] = "body" /\ pc'[w] # "body"
                /\ ~Seen(k) /\ PassesFilters(l, config) /\ MissesThreshold(l, config) )
              => (pc'[w] = "suppress" /\ sendLog' = sendLog)
           /\ (pc[w] = "suppress" /\ pc'[w] # "suppress")
              => ( pc'[w] = "continue" /\ has_seen(db', k[1], k[2])
                   /\ markCount'[k] = markCount[k] + 1 /\ sendLog' = sendLog )
  /\ \A k \in Keys :
       (markCount[k] >= 1 /\ sendLog[k] = <<>>) => sendLog'[k] = <<>>

C3_SuppressedNeverNotified == [][C3_Step]_vars

\* a key suppressed in the first cycle comes back in the second as a listing
\* that would be notified
C3_Witness ==
  /\ pc[1] = "body" /\ cycle[1] = 2
  /\ markCount[KeyOf(cur[1])] = 1 /\ sendLog[KeyOf(cur[1])] = <<>>
  /\ Evaluate(cur[1], config).outcome = "notify"

\* C4: a listing whose key is already in the store is skipped right after
\* the has_seen lookup: no filter, no compute_profit, no send, no mark_seen,
\* and the store, the key's seen_at included, is as it was.
C4_Step ==
  \A w \in Workers :
    ( /\ pc[w] = "body" /\ pc'[w] # "body"
      /\ Truthy(cur[w].listing_id) /\ Seen(KeyOf(cur[w])) )
    => ( /\ pc'[w] = "continue" /\ ops'[w] = <<"has_seen">>
         /\ db' = db /\ now' = now
         /\ sendLog' = sendLog /\ markCount' = markCount )

C4_DedupShortCircuit == [][C4_Step]_vars

\* a seen listing that would otherwise be valued was skipped after has_seen
C4_Witness ==
  /\ pc[1] = "continue" /\ ops[1] = <<"has_seen">>
  /\ Seen(KeyOf(cur[1]))
  /\ Evaluate(cur[1], config).outcome \in {"notify", "suppress"}

\* C5: two workers running run_once concurrently on the same store, in any
\* interleaving of their has_seen, send and mark_seen steps, never invoke
\* Notifier.send twice in total for the same (marketplace, listing_id).
C5_NoDoubleNotify == \A k \in Keys : Len(sendLog[k]) < 2

\* C6: has_seen(k) is false before any mark_seen(k) and true from the first
\* one on; however often mark_seen(k) is called the table holds exactly one
\* row for k; and mark_seen(k) changes has_seen of no other key.
C6_StoreSemantics ==
  \A k \in Keys :
    /\ Seen(k) <=> markCount[k] > 0
    /\ Cardinality(RowsOf(k)) = IF markCount[k] > 0 THEN 1 ELSE 0

\* mark_seen was called twice for one key and never for another
C6_Witness ==
  \E k, k2 \in Keys : markCount[k] = 2 /\ markCount[k2] = 0 /\ ~Seen(k2)

\* C7: no step removes a seen key: once has_seen(k) is true it stays true,
\* through later cycles and through a restart of the process, each of which
\* constructs a new SeenStore on the same file.
C7_Step == \A k \in Keys : Seen(k) => has_seen(db', k[1], k[2])

C7_SeenOnlyGrows == [][C7_Step]_vars

\* a process started again after an exception has opened the store in its
\* second cycle and the earlier rows are there
C7_Witness ==
  /\ pc[1] = "fetch" /\ cycle[1] = 2 /\ lastError[1] # "none"
  /\ db.rows # {}

\* C8: fetch_listings raising does not end the cycle: the worker goes on to
\* the next enabled fetcher with the store and the send log untouched, no
\* listing of the failed source is processed, and a cycle that ends has
\* queried every enabled fetcher.
C8_Step ==
  \A w \in Workers :
    (pc[w] = "fetch" /\ failed'[w] # failed[w] /\ failed'[w] # {})
    => ( /\ pc'[w] = "fetch" /\ fi'[w] = fi[w] + 1 /\ left'[w] = 0
         /\ lastError' = lastError
         /\ db' = db /\ sendLog' = sendLog /\ markCount' = markCount )

C8_Inv ==
  \A w \in Workers :
    /\ pc[w] = "sleep" => queried[w] = fetchers(config)
    /\ pc[w] \in {"listing", "body", "suppress", "send", "mark", "continue"}
       => fetchers(config)[fi[w]] \notin failed[w]
    /\ pc[w] \in {"body", "suppress", "send", "mark", "continue"}
       => cur[w].marketplace \notin failed[w]

C8_FetchFailureIsolated == [](C8_Inv) /\ [][C8_Step]_vars

\* after the eBay fetch raised, a Vinted listing of the same cycle was
\* processed and marked seen
C8_Witness ==
  /\ failed[1] = {"ebay"} /\ queried[1] = <<"ebay", "vinted">>
  /\ pc[1] = "continue" /\ cur[1].marketplace = "vinted"
  /\ Has(ops[1], "mark_seen")

\* C9: with a strategy outside {A, B, C} every listing that reaches the
\* valuation, whatever its price, ends the cycle with the ValueError: it is
\* neither suppressed nor notified.
C9_UnknownStrategyIsFatal ==
  \A w \in Workers :
    ( /\ Upper(config.VALUATION_STRATEGY) \notin {"A", "B", "C"}
      /\ InBody(w) /\ Has(ops[w], "compute_profit") )
    => (pc[w] = "crashed" /\ lastError[w] = "ValueError")

\* C10: a listing without a price (no key, or None) that reaches the
\* valuation raises nothing: compute_profit returns product_cost = 0 and
\* buyer_protection_cost = 0 and the listing is suppressed as unprofitable.
C10_AbsentPriceIsUnprofitable ==
  \A w \in Workers :
    ( /\ InBody(w) /\ Has(ops[w], "compute_profit")
      /\ cur[w].price.tag # "num" )
    => ( /\ pc[w] \in {"suppress", "continue"}
         /\ LET b == compute_profit(cur[w], config)
            IN  b.error = "none" /\ b.product_cost = 0
                /\ b.buyer_protection_cost = 0 )

\* C11: every listing with an id that was not yet seen and whose processing
\* raised nothing is marked seen when its processing ends, a listing the
\* include regex, the exclude regex or the condition filter rejected
\* included.
C11_EvaluatedIsMarked ==
  \A w \in Workers :
    (pc[w] = "continue" /\ Has(ops[w], "filter"))
    => (Has(ops[w], "mark_seen") /\ Seen(KeyOf(cur[w])))

\* C12: a malformed listing (a None title under a regex, a None price, a
\* missing listing_id, title or url key) stops only itself: the worker is
\* never stopped by its TypeError or KeyError while later listings of the
\* fetch result, or later fetchers, are still to be processed.
C12_MalformedSkippedAlone ==
  \A w \in Workers :
    ~ ( /\ pc[w] = "crashed"
        /\ lastError[w] \in {"TypeError", "KeyError"}
        /\ (left[w] > 1 \/ fi[w] < Len(fetchers(config))) )

Abs(x) == IF x < 0 THEN -x ELSE x

\* the shipping cost compute_profit adds for listing l under settings s: the
\* listing's own, else the table's default, else nothing
ResolvedShipping(l, s) ==
  IF l.shipping_cost.tag = "num" THEN l.shipping_cost.val
  ELSE IF s.SHIPPING_TABLE_JSON.tag = "default" THEN s.SHIPPING_TABLE_JSON.val
  ELSE 0

\* C13: with a price p, shipping s and strategy A or C, compute_profit returns
\* product_cost = p, buyer_protection_cost = 5% of p to the nearest penny,
\* total_cost = p + buyer_protection_cost + s, potential_resale_value =
\* 1.5 * p to the nearest penny, profit = resale - total_cost and
\* margin_percent = profit / total_cost * 100 to the nearest hundredth; for
\* p = 100.00, s = 5.00: 5.00, 110.00, 150.00, 40.00 and 36.36.
C13_ProfitFormula ==
  ( /\ call.fn = "compute_profit"
    /\ call.listing.price.tag = "num"
    /\ Upper(call.settings.VALUATION_STRATEGY) \in {"A", "C"} )
  => LET p == call.listing.price.val
         sh == ResolvedShipping(call.listing, call.settings)
     IN  /\ ret.error = "none"
         /\ ret.product_cost = p
         /\ Abs(100 * ret.buyer_protection_cost - 5 * p) <= 50
         /\ ret.shipping_cost = sh
         /\ ret.total_cost = p + ret.buyer_protection_cost + sh
         /\ Abs(2 * ret.potential_resale_value - 3 * p) <= 1
         /\ ret.profit = ret.potential_resale_value - ret.total_cost
         /\ ret.total_cost # 0
            => 2 * Abs(ret.margin_percent * ret.total_cost - ret.profit * 10000)
               <= ret.total_cost
         /\ (p = 10000 /\ sh = 500)
            => ( /\ ret.buyer_protection_cost = 500 /\ ret.total_cost = 11000
                 /\ ret.potential_resale_value = 15000 /\ ret.profit = 4000
                 /\ ret.margin_percent = 3636 )

\* the call of test_compute_profit_heuristic: price 100.00, shipping 5.00,
\* strategy C, margin 36.36
C13_Witness ==
  /\ call.fn = "compute_profit"
  /\ call.listing.price = Num(10000) /\ call.listing.shipping_cost = Num(500)
  /\ call.settings.VALUATION_STRATEGY = "C"
  /\ ret.margin_percent = 3636

\* C14: whenever compute_profit returns with total_cost = 0, margin_percent
\* is 0, whatever the resale value: nothing is divided by zero.
C14_ZeroTotalZeroMargin ==
  (call.fn = "compute_profit" /\ ret.error = "none" /\ ret.total_cost = 0)
  => ret.margin_percent = 0

\* a free listing (price 0, no shipping) of a model the static table holds:
\* total_cost 0 under a resale value and profit of 130.00
C14_Witness ==
  /\ call.fn = "compute_profit" /\ ret.error = "none"
  /\ ret.total_cost = 0 /\ ret.potential_resale_value = 13000
  /\ ret.profit = 13000 /\ ret.margin_percent = 0

\* strategy B does not find brand|model of listing l in its table
UnresolvedB(l, s) ==
  /\ Upper(s.VALUATION_STRATEGY) = "B"
  /\ <<Lower(OrEmpty(l.brand)), Lower(OrEmpty(l.model))>>
       \notin {<<"cobra", "king ltdx">>, <<"scotty cameron", "phantom x">>}

\* C15: under strategy B with brand|model not in the static table (brand or
\* model absent included), compute_profit returns profit = 0, margin_percent
\* = 0 and potential_resale_value = 0 for every price and shipping cost.
C15_UnresolvedResaleIsZero ==
  ( /\ call.fn = "compute_profit"
    /\ call.listing.price.tag # "none"
    /\ UnresolvedB(call.listing, call.settings) )
  => ( /\ ret.error = "none"
       /\ ret.profit = 0 /\ ret.margin_percent = 0
       /\ ret.potential_resale_value = 0 )

\* a listing of 100.00 plus 5.00 shipping whose model is None, under strategy b
C15_Witness ==
  /\ call.fn = "compute_profit"
  /\ UnresolvedB(call.listing, call.settings)
  /\ call.listing.model = None /\ call.listing.brand = "Cobra"
  /\ ret.error = "none" /\ ret.total_cost = 11000 /\ ret.profit = 0

\* C16: send tries the Cloud API first when it is configured; Twilio is
\* tried exactly when it is configured and the Cloud API is unconfigured or
\* failed; send returns true iff a transport it tried succeeded, and false
\* when nothing is configured or everything configured failed.
C16_TransportFallback ==
  call.fn = "send"
  => LET s == call.settings
         a == ret.attempted
     IN  /\ Has(a, "cloud") <=> s.WA
         /\ s.WA => a[1] = "cloud"
         /\ Has(a, "twilio") <=> (s.TWILIO /\ (~s.WA \/ ~call.cloudOk))
         /\ Len(a) <= 2 /\ (Len(a) = 2 => a = <<"cloud", "twilio">>)
         /\ ret.result <=> ( \/ (Has(a, "cloud") /\ call.cloudOk)
                             \/ (Has(a, "twilio") /\ call.twilioOk) )
         /\ (~s.WA /\ ~s.TWILIO) => (~ret.result /\ a = <<>>)
         /\ ((s.WA => ~call.cloudOk) /\ (s.TWILIO => ~call.twilioOk)) => ~ret.result

\* both configured, the Cloud API failed, Twilio delivered
C16_Witness ==
  /\ call.fn = "send" /\ call.settings.WA /\ call.settings.TWILIO
  /\ ~call.cloudOk /\ call.twilioOk
  /\ ret.result /\ ret.attempted = <<"cloud", "twilio">>

\* C17: the worker polls forever: a cycle that ended is followed, after the
\* sleep, by the next call of run_once, and so is a cycle that an error
\* ended.
C17_PollsForever ==
  \A w \in Single.workers : (pc[w] \in {"sleep", "crashed"}) ~> (pc[w] = "idle")

SampleProfitable(i, s) == MeetsThresholds(samples[i], s)

\* C19: when at least one sample is profitable, dry_run returns the message
\* and payload of the first sample, in sample order, with profit >=
\* PROFIT_MIN and margin_percent >= MARGIN_MIN_PERCENT.
C19_FirstProfitableSample ==
  ( /\ call.fn = "dry_run"
    /\ \E i \in 1..Len(samples) : SampleProfitable(i, call.settings) )
  => \E i \in 1..Len(samples) :
       /\ SampleProfitable(i, call.settings)
       /\ \A j \in 1..(i - 1) : ~SampleProfitable(j, call.settings)
       /\ ret.error = "none"
       /\ ret.listing_id = samples[i].listing_id
       /\ ret.payload = compute_profit(samples[i], call.settings)

\* C20: without an app id and without a client id/secret pair
\* EbayFetcher.fetch_listings returns an empty list, and with ENABLE_VINTED
\* off so does VintedFetcher.fetch_listings; neither raises and neither
\* makes a request, whatever the network would have answered.
C20_UnconfiguredFetchIsEmpty ==
  /\ ( /\ call.fn = "EbayFetcher.fetch_listings"
       /\ ~Truthy(call.settings.EBAY_APP_ID)
       /\ ~(Truthy(call.settings.EBAY_CLIENT_ID) /\ Truthy(call.settings.EBAY_CLIENT_SECRET)) )
     => (ret.error = "none" /\ ret.items = <<>> /\ ret.requests = <<>>)
  /\ (call.fn = "VintedFetcher.fetch_listings" /\ ~call.settings.ENABLE_VINTED)
     => (ret.error = "none" /\ ret.items = <<>> /\ ret.requests = <<>>)

\* eBay has a client id but an empty secret and no app id, and the network
\* would have answered with JSON that is no object
C20_Witness ==
  /\ call.fn = "EbayFetcher.fetch_listings"
  /\ call.settings.EBAY_CLIENT_ID = "id" /\ call.settings.EBAY_CLIENT_SECRET = ""
  /\ call.settings.EBAY_APP_ID = None
  /\ call.response = "array" /\ Len(call.items) = MaxItems
  /\ ret.items = <<>> /\ ret.requests = <<>>

\* C21: when mark_seen fails fatally, or the process stops between send and
\* mark_seen, and polling resumes with the listing still fetched, send is
\* still invoked at most once for its key: the worker is never about to
\* send for a key a send was already made for.
C21_SingleShotUnderFaults ==
  \A w \in Workers : pc[w] = "send" => sendLog[KeyOf(cur[w])] = <<>>

\* the listings the fetchers build from items that carry no id
BuiltWithoutId ==
  { EbayFetcher_simplify_item(i).listing :
      i \in {x \in EbayItems : x.shape = "object" /\ x.price.tag # "text" /\ x.id = Missing} }
  \cup
  { VintedFetcher_simplify_item(i).listing :
      i \in {x \in VintedItems : x.shape = "object" /\ x.price.tag # "text" /\ x.id = Missing} }

\* C22: a listing with no listing_id (absent, None or empty), a listing a
\* fetcher built from an item without an id included, is dropped before the
\* dedup lookup: no has_seen, no valuation, no send and no mark_seen is done
\* for it.
C22_NoIdIsDiscarded ==
  \A w \in Workers :
    ( /\ InBody(w) /\ pc[w] # "body"
      /\ (~Truthy(cur[w].listing_id) \/ cur[w] \in BuiltWithoutId) )
    => (ops[w] = <<>> /\ pc[w] \in {"continue", "crashed"})

\* an item _simplify_item can parse: a JSON object whose price and shipping
\* cost, where given, are numbers
WellFormedItem(i) ==
  i.shape = "object" /\ i.price.tag # "text" /\ i.shipping.tag # "text"

\* the listings of the well-formed items of a response, in response order
ListingsOf(marketplace, items) ==
  LET good == SelectSeq(items, WellFormedItem)
  IN  [k \in 1..Len(good) |-> simplify_item(marketplace, good[k]).listing]

\* a fetch_listings call that got as far as a search response with items
FetchAnswered ==
  \/ /\ call.fn = "EbayFetcher.fetch_listings"
     /\ ( Truthy(call.settings.EBAY_APP_ID)
          \/ (Truthy(call.settings.EBAY_CLIENT_ID) /\ Truthy(call.settings.EBAY_CLIENT_SECRET)) )
     /\ call.response = "object"
  \/ /\ call.fn = "VintedFetcher.fetch_listings"
     /\ call.settings.ENABLE_VINTED
     /\ call.response = "object"

\* C26: a malformed item of a search response is dropped and the fetch goes
\* on: fetch_listings returns exactly the listings of the well-formed items,
\* in response order, wherever and however many the malformed ones are.
C26_MalformedItemsDropped ==
  FetchAnswered
  => ( /\ ret.error = "none"
       /\ ret.items = ListingsOf(IF call.fn = "EbayFetcher.fetch_listings"
                                   THEN "ebay" ELSE "vinted", call.items) )

\* a response whose first item is malformed and whose last one is not: the
\* last one is returned
C26_Witness ==
  /\ FetchAnswered
  /\ Len(call.items) = MaxItems
  /\ ~WellFormedItem(call.items[1])
  /\ WellFormedItem(call.items[Len(call.items)])
  /\ ret.items # <<>>
  /\ ret.items[Len(ret.items)].listing_id \in {"e1", "v1"}

\* C23: within a cycle the enabled fetchers are queried one at a time, eBay
\* before Vinted; a listing is taken only when the one before it is done,
\* its mark_seen included; so a key that was marked seen earlier in the same
\* fetch result is rejected by the dedup check when it comes again.
C23_Inv ==
  \A w \in Workers :
    /\ \E n \in 0..2 :
         queried[w] = SubSeq(SelectSeq(<<"ebay", "vinted">>,
                                       LAMBDA m : IF m = "ebay" THEN config.ENABLE_EBAY
                                                  ELSE config.ENABLE_VINTED), 1, n)
    /\ pc[w] \in {"listing", "body", "suppress", "send", "mark", "continue"}
       => (Len(queried[w]) = fi[w] /\ left[w] >= 1)
    /\ pc[w] \in {"body", "suppress", "send", "mark", "continue"}
       => cur[w].marketplace = queried[w][Len(queried[w])]
    /\ \A k \in marked[w] : Seen(k)

C23_Step ==
  \A w \in Workers :
    /\ (pc'[w] = "body" /\ pc[w] # "body")
       => (pc[w] = "listing" /\ cur[w] = NoListing /\ ops[w] = <<>>)
    /\ (pc[w] = "body" /\ pc'[w] # "body" /\ KeyOf(cur[w]) \in marked[w])
       => ( /\ pc'[w] = "continue" /\ ops'[w] = <<"has_seen">>
            /\ db' = db /\ sendLog' = sendLog /\ markCount' = markCount )
    /\ (pc[w] \in {"suppress", "mark"} /\ pc'[w] = "continue")
       => (KeyOf(cur[w]) \in marked'[w] /\ has_seen(db', cur[w].marketplace, cur[w].listing_id))

PassesRegex(l, s) ==
  /\ (s.REGEX_INCLUDE # None \/ s.REGEX_EXCLUDE # None) => l.title # None
  /\ s.REGEX_INCLUDE # None => regex_search(s.REGEX_INCLUDE, l.title)
  /\ s.REGEX_EXCLUDE # None => ~regex_search(s.REGEX_EXCLUDE, l.title)

\* condition c is given, and is none of the accepted ones in any casing
UnacceptableCondition(c) ==
  /\ c \notin {Missing, None, ""}
  /\ Lower(c) \notin {"new", "like new", "excellent", "very good", "good"}

\* C24: a listing that got past the regex filters is rejected by the
\* condition filter iff its condition is present, non-empty and not one of
\* new, like new, excellent, very good, good in any casing; with an absent,
\* None or empty condition it goes on to the valuation.
C24_ConditionFilter ==
  \A w \in Workers :
    ( /\ InBody(w) /\ pc[w] # "body"
      /\ Has(ops[w], "filter") /\ PassesRegex(cur[w], config) )
    => ( /\ UnacceptableCondition(cur[w].condition)
            <=> ~Has(ops[w], "compute_profit")
         /\ UnacceptableCondition(cur[w].condition)
            => (pc[w] = "continue" /\ ops[w] = <<"has_seen", "filter">>) )

\* a listing whose condition is the empty string was valuated
C24_Witness ==
  /\ InBody(1) /\ pc[1] # "body"
  /\ cur[1].condition = "" /\ Has(ops[1], "compute_profit")

\* C25: compute_profit takes the listing's own shipping cost whenever it is
\* present, a configured table notwithstanding; else the table's default;
\* else shipping is unresolved, reported as 0 and left out of total_cost,
\* which is then product_cost + buyer_protection_cost.
C25_ShippingResolution ==
  (call.fn = "compute_profit" /\ ret.error = "none")
  => LET own == call.listing.shipping_cost
         tab == call.settings.SHIPPING_TABLE_JSON
     IN  /\ own.tag = "num" => ret.shipping_cost = own.val
         /\ (own.tag # "num" /\ tab.tag = "default") => ret.shipping_cost = tab.val
         /\ (own.tag # "num" /\ tab.tag # "default")
            => ( /\ ret.shipping_cost = 0
                 /\ ret.total_cost = ret.product_cost + ret.buyer_protection_cost )
         /\ ret.total_cost
              = ret.product_cost + ret.buyer_protection_cost + ret.shipping_cost

\* a listing with free shipping of its own under a table whose default is
\* 3.00: the listing's 0.00 is used
C25_Witness ==
  /\ call.fn = "compute_profit" /\ ret.error = "none"
  /\ call.listing.shipping_cost = Num(0)
  /\ call.settings.SHIPPING_TABLE_JSON = ShipDefault(300)
  /\ call.listing.price = Num(10000)
  /\ ret.shipping_cost = 0 /\ ret.total_cost = 10500

\* C27: no listing of a fetch result is starved by the ones before it: with
\* two listings still to be processed, the second one is eventually taken,
\* whatever becomes of the first.
C27_NoStarvation ==
  \A w \in Single.workers :
    (pc[w] = "listing" /\ left[w] = 2) ~> (pc[w] = "body" /\ left[w] = 1)

====
